---- MODULE Spec2Model ----
(***************************************************************************)
(* Listing ingestion of auto-finder: DataProcessor.process_listings        *)
(* (data_processor.py) and CarScrapingEngine.process_listings              *)
(* (scraping_engine.py) writing the car_listings table (models.py).        *)
(* Text is modelled as sequences of one-character strings.                 *)
(***************************************************************************)
EXTENDS Integers, Sequences, FiniteSets, TLC

\* Python None (also what dict.get returns for an absent key), one value per
\* type of field so that a field is always compared with its own kind:
\* NoVal for plain strings, NoText for character sequences, NoNum for numbers.
NoVal == "None"
NoText == <<"None">>
NoNum == 0 - 1000000

\* Python truthiness: None, '' and 0 are falsy.
TruthyText(v) == v # NoText /\ v # <<>>
TruthyNum(v) == v # NoNum /\ v # 0
TruthyStr(v) == v # NoVal /\ v # ""

Abs(x) == IF x < 0 THEN 0 - x ELSE x

(***************************************************************************)
(* Text helpers: str.lower, str.strip, re.sub, str.startswith              *)
(***************************************************************************)
UpperCase == <<"A","B","C","D","E","F","G","H","I","J","K","L","M",
               "N","O","P","Q","R","S","T","U","V","W","X","Y","Z">>
LowerCase == <<"a","b","c","d","e","f","g","h","i","j","k","l","m",
               "n","o","p","q","r","s","t","u","v","w","x","y","z">>
DigitChars == {"0","1","2","3","4","5","6","7","8","9"}
WhitespaceChars == {" ", "\t", "\n"}

Range(s) == {s[i] : i \in DOMAIN s}

\* \w of the re module
IsWordChar(c) == c \in Range(UpperCase) \cup Range(LowerCase) \cup DigitChars \cup {"_"}

LowerChar(c) ==
    IF \E i \in DOMAIN UpperCase : UpperCase[i] = c
    THEN LowerCase[CHOOSE i \in DOMAIN UpperCase : UpperCase[i] = c]
    ELSE c

\* str.lower()
Lower(s) == [i \in DOMAIN s |-> LowerChar(s[i])]

\* str.startswith(prefix)
StartsWith(s, prefix) ==
    Len(s) >= Len(prefix) /\ SubSeq(s, 1, Len(prefix)) = prefix

RECURSIVE LStrip(_)
LStrip(s) ==
    IF s # <<>> /\ Head(s) \in WhitespaceChars THEN LStrip(Tail(s)) ELSE s

RECURSIVE RStrip(_)
RStrip(s) ==
    IF s # <<>> /\ s[Len(s)] \in WhitespaceChars
    THEN RStrip(SubSeq(s, 1, Len(s) - 1))
    ELSE s

\* str.strip()
Strip(s) == RStrip(LStrip(s))

\* re.sub(r'\s+', ' ', s): every maximal run of whitespace becomes one space
RECURSIVE CollapseWhitespace(_)
CollapseWhitespace(s) ==
    IF s = <<>> THEN <<>>
    ELSE IF Head(s) \in WhitespaceChars
         THEN <<" ">> \o CollapseWhitespace(LStrip(s))
         ELSE <<Head(s)>> \o CollapseWhitespace(Tail(s))

\* re.sub(r'[^\w\s\-\.]', '', s)
RemoveSpecial(s) ==
    SelectSeq(s, LAMBDA c : IsWordChar(c) \/ c \in WhitespaceChars \/ c \in {"-", "."})

\* DataProcessor.clean_text
clean_text(text) ==
    IF ~TruthyText(text) THEN <<>>
    ELSE RemoveSpecial(CollapseWhitespace(Strip(text)))

(***************************************************************************)
(* difflib.SequenceMatcher(None, a, b).ratio() for short strings (the      *)
(* autojunk heuristic only applies to sequences of 200 or more elements).  *)
(* Indices are 1-based and the bounds inclusive.                           *)
(***************************************************************************)
RECURSIVE CommonRun(_, _, _, _, _, _)
CommonRun(a, i, ahi, b, j, bhi) ==
    IF i > ahi \/ j > bhi THEN 0
    ELSE IF a[i] # b[j] THEN 0
    ELSE 1 + CommonRun(a, i + 1, ahi, b, j + 1, bhi)

\* run[<<i, j>>]: the length of the common run that starts at a[i] and b[j]
RunLengths(a, alo, ahi, b, blo, bhi) ==
    [p \in (alo..ahi) \X (blo..bhi) |-> CommonRun(a, p[1], ahi, b, p[2], bhi)]

LongestStarts(run) == {p \in DOMAIN run : \A q \in DOMAIN run : run[q] <= run[p]}

EarliestInA(starts) == {p \in starts : \A q \in starts : p[1] <= q[1]}

EarliestInB(starts) == CHOOSE p \in starts : \A q \in starts : p[2] <= q[2]

\* The longest matching block <<i, j, k>>; among the longest, the one that
\* starts earliest in a, and then earliest in b.
BestBlock(run) ==
    <<EarliestInB(EarliestInA(LongestStarts(run)))[1],
      EarliestInB(EarliestInA(LongestStarts(run)))[2],
      run[EarliestInB(EarliestInA(LongestStarts(run)))]>>

find_longest_match(a, alo, ahi, b, blo, bhi) ==
    IF alo > ahi \/ blo > bhi THEN <<alo, blo, 0>>
    ELSE BestBlock(RunLengths(a, alo, ahi, b, blo, bhi))

\* Sum of the sizes of get_matching_blocks(): the block m, then the blocks to
\* its left and to its right.
RECURSIVE MatchingSize(_, _, _, _, _, _)
BlocksAround(a, alo, ahi, b, blo, bhi, m) ==
    IF m[3] = 0 THEN 0
    ELSE m[3]
         + (IF alo < m[1] /\ blo < m[2]
            THEN MatchingSize(a, alo, m[1] - 1, b, blo, m[2] - 1) ELSE 0)
         + (IF m[1] + m[3] <= ahi /\ m[2] + m[3] <= bhi
            THEN MatchingSize(a, m[1] + m[3], ahi, b, m[2] + m[3], bhi) ELSE 0)

MatchingSize(a, alo, ahi, b, blo, bhi) ==
    BlocksAround(a, alo, ahi, b, blo, bhi, find_longest_match(a, alo, ahi, b, blo, bhi))

\* MatchingSize of the titles the model uses, computed once.
MemoTitles ==
    {<<>>,
     <<"a","u","d","i"," ","a","4"," ","s","e">>,
     <<"a","u","d","i"," ","a","4"," ","s","e","l">>,
     <<"b","m","w"," ","3","2","0","d"," ","m">>}
RECURSIVE MatchingSizeTable(_)
MatchingSizeTable(pairs) ==
    IF pairs = {} THEN <<>>
    ELSE LET p == CHOOSE q \in pairs : TRUE
         IN  (p :> MatchingSize(p[1], 1, Len(p[1]), p[2], 1, Len(p[2])))
             @@ MatchingSizeTable(pairs \ {p})
MemoMatchingSize == MatchingSizeTable(MemoTitles \X MemoTitles)

MatchingSizeOf(table, a, b) ==
    IF <<a, b>> \in DOMAIN table THEN table[<<a, b>>]
    ELSE MatchingSize(a, 1, Len(a), b, 1, Len(b))

\* ratio() > num/den, in integers: ratio = 2*M/T, and 1.0 when T = 0
RatioExceeds(a, b, num, den) ==
    IF Len(a) + Len(b) = 0 THEN den > num
    ELSE 2 * MatchingSizeOf(MemoMatchingSize, a, b) * den > num * (Len(a) + Len(b))

(***************************************************************************)
(* Raw values the model draws its inputs from                              *)
(***************************************************************************)
TitleA == <<"A","u","d","i"," ","A","4"," ","S","E">>          \* "Audi A4 SE"
TitleB == <<"A","u","d","i"," ","A","4"," ","S","E","L">>      \* "Audi A4 SEL"
TitleC == <<"B","M","W"," ","3","2","0","d"," ","M">>          \* "BMW 320d M"
TitleShort == <<"A","u","d","i"," ","A","4"," ","S","!">>      \* "Audi A4 S!"
Url1 == <<"h","t","t","p",":","/","/","a">>                    \* "http://a"
Url2 == <<"h","t","t","p",":","/","/","b">>                    \* "http://b"
UrlBad == <<"f","t","p",":","/","/","a">>                      \* "ftp://a"
Http == <<"h","t","t","p">>
PriceLow == 100
PriceQ == 14000
PriceP == 15000

\* Bounds of the model
MaxBatch == 2
MaxRuns == 2
MaxDay == 2
MaxDaysOld == 1

(***************************************************************************)
(* models.py: CarListing                                                   *)
(***************************************************************************)
\* nullable=False on title, price and url: a flush of such a row raises
\* IntegrityError.  (url is also unique=True; every insert of the model is
\* preceded by a lookup of the url, so that constraint never raises.)
Flushable(row) == row.title # NoText /\ row.price # NoNum /\ row.url # NoText

AllFlushable(table) == \A i \in DOMAIN table : Flushable(table[i])

\* CarListing.query.filter_by(url=url).first(); 0 when there is none.
\* (url = None compiles to "url IS NULL", which no stored row satisfies.)
FindByUrl_Absent(table, url) == 0

FindByUrl(table, url) ==
    IF url # NoText /\ \E i \in DOMAIN table : table[i].url = url
    THEN CHOOSE i \in DOMAIN table :
            table[i].url = url /\ \A j \in DOMAIN table : table[j].url = url => i <= j
    ELSE 0

\* The autoincrement primary key of the next inserted row.
NextId(table) ==
    IF table = <<>> THEN 1
    ELSE 1 + (CHOOSE m \in {table[i].id : i \in DOMAIN table} :
                 \A i \in DOMAIN table : table[i].id <= m)

\* A new CarListing(...) with the column defaults of models.py
\* (last_seen is the day of the insert: default=datetime.utcnow, line 179)
NewRow(table, title, price, url, image_hash, is_dup, group_id, seen) ==
    [id |-> NextId(table), title |-> title, price |-> price, url |-> url,
     image_hash |-> image_hash, status |-> "active",
     is_duplicate |-> is_dup, duplicate_group_id |-> group_id,
     previous_price |-> NoNum, price_dropped |-> FALSE, price_drop_amount |-> 0,
     last_seen |-> seen]

(***************************************************************************)
(* data_processor.py: DataProcessor                                        *)
(***************************************************************************)
MinTitleLen == 10
MinPrice == 500
MaxPrice == 200000
MinYear == 1990
MaxYear == 2025
MaxMileage == 500000

Ireland == <<"I","r","e","l","a","n","d">>

\* The result of clean_listing_data for a record it rejects (None).
Rejected == [rejected |-> TRUE]

GetText(d, key) == IF key \in DOMAIN d THEN d[key] ELSE NoText
GetNum(d, key) == IF key \in DOMAIN d THEN d[key] ELSE NoNum

TitleTooShort_OffByOne(title) == Len(title) < MinTitleLen - 1

\* len(title) < 10 (line 80)
TitleTooShort(title) == Len(title) < MinTitleLen

\* A value of the wrong type in a numeric field, such as the str 'POA': it is
\* truthy, and comparing it with a number raises TypeError.
NotANumber == 0 - 2000000

\* The outcome of a try block that raised.
Raised == [raise |-> TRUE]

\* The try block of clean_listing_data (lines 72-134): the canonical
\* listing, Rejected for a return None, or Raised.  The comparisons of lines
\* 85, 96 and 102 come after the test of the title and before that of the url.
\* The entry deal_score of line 133 depends on the clock and is added by
\* WithDealScore.
clean_try(listing_data) ==
    IF ~TruthyText(GetText(listing_data, "title")) \/ ~TruthyText(GetText(listing_data, "url"))
    THEN Rejected
    ELSE
    LET title == clean_text(listing_data.title)
        rawPrice == GetNum(listing_data, "price")
        price == IF TruthyNum(rawPrice) /\ (rawPrice < MinPrice \/ rawPrice > MaxPrice)
                 THEN NoNum ELSE rawPrice
        cleanLoc == clean_text(GetText(listing_data, "location"))
        location == IF ~TruthyText(cleanLoc) THEN Ireland ELSE cleanLoc
        rawYear == GetNum(listing_data, "year")
        year == IF TruthyNum(rawYear) /\ (rawYear < MinYear \/ rawYear > MaxYear)
                THEN NoNum ELSE rawYear
        rawMileage == GetNum(listing_data, "mileage")
        mileage == IF TruthyNum(rawMileage) /\ (rawMileage < 0 \/ rawMileage > MaxMileage)
                   THEN NoNum ELSE rawMileage
        url == listing_data.url
    IN  IF TitleTooShort(title) THEN Rejected
        ELSE IF NotANumber \in {rawPrice, rawYear, rawMileage} THEN Raised
        ELSE IF ~StartsWith(url, Http) THEN Rejected
        ELSE [title |-> title, price |-> price, location |-> location, url |-> url,
              image_hash |-> IF "image_hash" \in DOMAIN listing_data
                             THEN listing_data.image_hash ELSE "",
              year |-> year, mileage |-> mileage,
              fuel_type |-> clean_text(GetText(listing_data, "fuel_type")),
              is_duplicate |-> FALSE]

clean_except_Propagates(outcome) == outcome

\* except Exception: return None (lines 136-138)
clean_except(outcome) == IF outcome = Raised THEN Rejected ELSE outcome

\* DataProcessor.clean_listing_data
clean_listing_data(listing_data) == clean_except(clean_try(listing_data))

\* The similarity test of DataProcessor.is_duplicate (line 164-165)
TitleSimilar(title, existing_title) ==
    RatioExceeds(Lower(title), Lower(existing_title), 9, 10)

DP_is_duplicate_UrlOnly(listing_data, urls, titles, table) ==
    IF listing_data.url \in urls \/ FindByUrl(table, listing_data.url) # 0
    THEN [dup |-> TRUE, urls |-> urls, titles |-> titles]
    ELSE [dup |-> FALSE, urls |-> urls \cup {listing_data.url},
          titles |-> titles \cup {listing_data.title}]

\* DataProcessor.is_duplicate: the verdict and the working sets afterwards
DP_is_duplicate(listing_data, urls, titles, table) ==
    IF listing_data.url \in urls
    THEN [dup |-> TRUE, urls |-> urls, titles |-> titles]
    ELSE IF \E t \in titles : TitleSimilar(listing_data.title, t)
    THEN [dup |-> TRUE, urls |-> urls, titles |-> titles]
    ELSE IF FindByUrl(table, listing_data.url) # 0
    THEN [dup |-> TRUE, urls |-> urls, titles |-> titles]
    ELSE [dup |-> FALSE, urls |-> urls \cup {listing_data.url},
          titles |-> titles \cup {listing_data.title}]

\* DataProcessor.store_listing: 'new', 'updated', or 'raise' when the commit
\* fails and the session is rolled back.
store_listing(listing_data, table, seen) ==
    LET e == FindByUrl(table, listing_data.url)
        updated == [table EXCEPT ![e].title = listing_data.title,
                                 ![e].price = listing_data.price,
                                 ![e].image_hash = listing_data.image_hash,
                                 ![e].last_seen = seen]
        inserted == Append(table,
                       NewRow(table, listing_data.title, listing_data.price,
                              listing_data.url, listing_data.image_hash,
                              listing_data.is_duplicate, NoNum, seen))
    IN  IF e # 0
        THEN IF AllFlushable(updated)
             THEN [result |-> "updated", table |-> updated]
             ELSE [result |-> "raise", table |-> table]
        ELSE IF AllFlushable(inserted)
             THEN [result |-> "new", table |-> inserted]
             ELSE [result |-> "raise", table |-> table]

ZeroStats == [total_processed |-> 0, new_listings |-> 0, updated_listings |-> 0,
              duplicates_skipped |-> 0, errors |-> 0]

Bump_OnlyStored(stats, key) ==
    IF key \in {"new_listings", "updated_listings"}
    THEN [stats EXCEPT ![key] = @ + 1] ELSE stats

\* stats[key] += 1
Bump(stats, key) == [stats EXCEPT ![key] = @ + 1]

\* One iteration of the loop of DataProcessor.process_listings on the state
\* st = [table, urls, titles, stats, now].
DP_process_one(listing_data, st) ==
    LET cleaned == clean_listing_data(listing_data)
        d == DP_is_duplicate(cleaned, st.urls, st.titles, st.table)
        r == store_listing(cleaned, st.table, st.now)
    IN  IF cleaned = Rejected
        THEN [st EXCEPT !.stats = Bump(@, "errors")]
        ELSE IF d.dup
        THEN [st EXCEPT !.stats = Bump(@, "duplicates_skipped")]
        ELSE IF r.result = "raise"
        THEN [table |-> st.table, urls |-> d.urls, titles |-> d.titles,
              stats |-> Bump(st.stats, "errors"), now |-> st.now]
        ELSE [table |-> r.table, urls |-> d.urls, titles |-> d.titles,
              stats |-> Bump(st.stats,
                             IF r.result = "new" THEN "new_listings"
                             ELSE "updated_listings"),
              now |-> st.now]

\* The whole loop over raw_listings[from..], as a function of the state.
RECURSIVE DP_loop(_, _, _)
DP_loop(raw_listings, from, st) ==
    IF from > Len(raw_listings) THEN st
    ELSE DP_loop(raw_listings, from + 1, DP_process_one(raw_listings[from], st))

(***************************************************************************)
(* scraping_engine.py: CarScrapingEngine                                   *)
(***************************************************************************)
PriceTolerance == 50

\* CarScrapingEngine.calculate_title_similarity(...) > 0.8
EngTitleSimilar(title1, title2) ==
    RatioExceeds(Lower(title1), Lower(title2), 8, 10)

DuplicateRule_And(new_listing, existing) ==
    /\ EngTitleSimilar(new_listing.title, existing.title)
    /\ Abs(new_listing.price - existing.price) < PriceTolerance
    /\ TruthyStr(new_listing.image_hash)
    /\ TruthyStr(existing.image_hash)
    /\ new_listing.image_hash = existing.image_hash

\* The rule of is_duplicate (lines 83-94): similar title and close price, or
\* the same image hash when both have one.
DuplicateRule(new_listing, existing) ==
    LET price_diff == Abs(new_listing.price - existing.price)
        image_match == /\ TruthyStr(new_listing.image_hash)
                       /\ TruthyStr(existing.image_hash)
                       /\ new_listing.image_hash = existing.image_hash
    IN  \/ (EngTitleSimilar(new_listing.title, existing.title)
            /\ price_diff < PriceTolerance)
        \/ image_match

RECURSIVE Eng_is_duplicate_Last(_, _)
Eng_is_duplicate_Last(new_listing, existing_listings) ==
    IF existing_listings = <<>>
    THEN [raise |-> FALSE, dup |-> FALSE, id |-> NoNum]
    ELSE IF new_listing.title = NoText \/ new_listing.price = NoNum
    THEN [raise |-> TRUE, dup |-> FALSE, id |-> NoNum]
    ELSE IF DuplicateRule(new_listing, existing_listings[Len(existing_listings)])
    THEN [raise |-> FALSE, dup |-> TRUE,
          id |-> existing_listings[Len(existing_listings)].id]
    ELSE Eng_is_duplicate_Last(new_listing,
                               SubSeq(existing_listings, 1, Len(existing_listings) - 1))

\* CarScrapingEngine.is_duplicate over the sequence of known rows:
\* [raise, dup, id].  A None title or price raises inside the loop body.
RECURSIVE Eng_is_duplicate(_, _)
Eng_is_duplicate(new_listing, existing_listings) ==
    IF existing_listings = <<>>
    THEN [raise |-> FALSE, dup |-> FALSE, id |-> NoNum]
    ELSE
    LET existing == Head(existing_listings)
    IN  IF new_listing.title = NoText \/ existing.title = NoText
        THEN [raise |-> TRUE, dup |-> FALSE, id |-> NoNum]
        ELSE IF new_listing.price = NoNum \/ existing.price = NoNum
        THEN [raise |-> TRUE, dup |-> FALSE, id |-> NoNum]
        ELSE IF DuplicateRule(new_listing, existing)
        THEN [raise |-> FALSE, dup |-> TRUE, id |-> existing.id]
        ELSE Eng_is_duplicate(new_listing, Tail(existing_listings))

RowById(table, id) == table[CHOOSE i \in DOMAIN table : table[i].id = id]

\* existing_listings: the objects loaded at line 512 plus those appended at
\* line 558, read through the session.
KnownRows(table, ids) == [i \in DOMAIN ids |-> RowById(table, ids[i])]

\* CarListing.query.filter(CarListing.status == 'active').all()
ActiveIds(table) ==
    LET act == SelectSeq(table, LAMBDA r : r.status = "active")
    IN  [i \in DOMAIN act |-> act[i].id]

Eng_update_ClearsOnRise(table, e, price) ==
    LET existing == table[e]
        drop == TruthyNum(existing.previous_price) /\ price < existing.previous_price
    IN  [table EXCEPT ![e].price = price,
                      ![e].price_dropped = drop,
                      ![e].price_drop_amount =
                          IF drop THEN existing.previous_price - price ELSE 0,
                      ![e].previous_price = price]

Eng_update_KeepsOldPrice(table, e, price) ==
    LET existing == table[e]
        drop == TruthyNum(existing.previous_price) /\ price < existing.previous_price
    IN  [table EXCEPT ![e].price = price,
                      ![e].price_dropped = IF drop THEN TRUE ELSE @,
                      ![e].price_drop_amount =
                          IF drop THEN existing.previous_price - price ELSE @,
                      ![e].previous_price = existing.price]

Eng_update_Removes(table, e, price) ==
    [table EXCEPT ![e].price = price, ![e].previous_price = price,
                  ![e].status = "removed"]

\* The update branch of process_listings (lines 525-537) on row e
Eng_update(table, e, price) ==
    LET existing == table[e]
        drop == TruthyNum(existing.previous_price) /\ price < existing.previous_price
    IN  [table EXCEPT ![e].price = price,
                      ![e].price_dropped = IF drop THEN TRUE ELSE @,
                      ![e].price_drop_amount =
                          IF drop THEN existing.previous_price - price ELSE @,
                      ![e].previous_price = price]

\* One iteration of the loop of CarScrapingEngine.process_listings on
\* st = [table, known, failed, new_count, updated_count, now].  table is the
\* session's view of car_listings; the query at line 522 first flushes the
\* session (autoflush), and a failed flush leaves the session unusable until
\* the rollback at line 569, so every later query raises too.
Eng_process_one(listing_data, st) ==
    LET e == FindByUrl(st.table, listing_data.url)
        d == Eng_is_duplicate(listing_data, KnownRows(st.table, st.known))
        row == NewRow(st.table, listing_data.title, listing_data.price,
                      listing_data.url, listing_data.image_hash, d.dup, d.id,
                      st.now)
    IN  IF st.failed THEN st
        ELSE IF ~AllFlushable(st.table) THEN [st EXCEPT !.failed = TRUE]
        ELSE IF e # 0
        THEN IF TruthyNum(st.table[e].previous_price) /\ listing_data.price = NoNum
             THEN \* line 526 has run when the comparison at line 530 raises
                  [st EXCEPT !.table = [@ EXCEPT ![e].price = NoNum,
                                                  ![e].last_seen = st.now]]
             ELSE [st EXCEPT !.table = [Eng_update(@, e, listing_data.price)
                                           EXCEPT ![e].last_seen = st.now],
                             !.updated_count = @ + 1]
        ELSE IF d.raise THEN st
        ELSE [st EXCEPT !.table = Append(@, row),
                        !.new_count = @ + 1,
                        !.known = Append(@, row.id)]

Eng_commit_DropAll(committed, st) ==
    IF st.failed \/ ~AllFlushable(st.table) THEN <<>> ELSE st.table

\* db.session.commit() at line 564, or the rollback at line 569 when it raises
Eng_commit(committed, st) ==
    IF st.failed \/ ~AllFlushable(st.table) THEN committed ELSE st.table

(***************************************************************************)
(* Deal scores.  The engine's score is a float: it is computed here in     *)
(* exact fractions <<n, d>> with d > 0; the closing comparisons against    *)
(* 0.0 and 100.0 do not depend on rounding.                                *)
(***************************************************************************)
RECURSIVE GCD(_, _)
GCD(a, b) == IF b = 0 THEN a ELSE GCD(b, a % b)

Reduce(n, d, g) == <<n \div g, d \div g>>

\* n / d for d # 0, in lowest terms
Frac(n, d) ==
    IF d < 0 THEN Reduce(0 - n, 0 - d, GCD(Abs(n), Abs(d)))
    ELSE Reduce(n, d, GCD(Abs(n), Abs(d)))

FZero == <<0, 1>>
FOne == <<1, 1>>
FHundred == <<100, 1>>
FAdd(x, y) == Frac(x[1] * y[2] + y[1] * x[2], x[2] * y[2])
FScale(x, k) == Frac(x[1] * k, x[2])
FLeq(x, y) == x[1] * y[2] <= y[1] * x[2]
FMin(x, y) == IF FLeq(y, x) THEN y ELSE x
FMax(x, y) == IF FLeq(x, y) THEN y ELSE x

RECURSIVE FSum(_)
FSum(terms) == IF terms = <<>> THEN FZero ELSE FAdd(Head(terms), FSum(Tail(terms)))

IntMax(a, b) == IF a >= b THEN a ELSE b

\* sub in s, for Python strings
Contains(s, sub) ==
    \E i \in 0..(Len(s) - Len(sub)) : SubSeq(s, i + 1, i + Len(sub)) = sub

FuelElectric == <<"E","l","e","c","t","r","i","c">>
FuelHybrid == <<"H","y","b","r","i","d">>
FuelDiesel == <<"D","i","e","s","e","l">>
FuelPetrol == <<"P","e","t","r","o","l">>

\* Price vs market value (lines 171-177)
Eng_price_term(listing, w, current_year) ==
    IF TruthyNum(listing.price) /\ TruthyNum(listing.year)
    THEN FScale(FMin(FOne,
                     Frac(IntMax(1000, 20000 - (current_year - listing.year) * 1500),
                          listing.price)),
                w)
    ELSE FZero

\* Mileage vs year (lines 180-186)
Eng_mileage_term(listing, w, current_year) ==
    IF /\ TruthyNum(listing.mileage)
       /\ TruthyNum(listing.year)
       /\ listing.mileage < (current_year - listing.year) * 12000
    THEN FScale(FMin(FOne, Frac((current_year - listing.year) * 12000, listing.mileage)), w)
    ELSE FZero

\* CO2 / tax band (lines 189-195)
Eng_fuel_term(listing, w) ==
    IF ~TruthyText(listing.fuel_type) THEN FZero
    ELSE IF Lower(listing.fuel_type) \in {Lower(FuelElectric), Lower(FuelHybrid)}
    THEN <<w, 1>>
    ELSE IF Lower(listing.fuel_type) = Lower(FuelDiesel) THEN Frac(w * 7, 10)
    ELSE Frac(w, 2)

\* Location match (lines 206-211)
Eng_location_term(listing, w, approved_locations) ==
    IF /\ TruthyText(listing.location)
       /\ \E i \in DOMAIN approved_locations :
             Contains(Lower(listing.location), Lower(approved_locations[i]))
    THEN <<w, 1>>
    ELSE FZero

\* Listing freshness (lines 214-217); days_old is
\* (datetime.utcnow() - first_seen).days, NoNum when first_seen is None
Eng_freshness_term(days_old, w) ==
    IF days_old = NoNum THEN FZero
    ELSE FScale(FMax(FZero, Frac(30 - days_old, 30)), w)

Eng_clamp_None(score) == score

\* min(100.0, max(0.0, score)) (line 219)
Eng_clamp(score) == FMin(FHundred, FMax(FZero, score))

\* CarScrapingEngine.calculate_deal_score
Eng_calculate_deal_score(listing, user_settings, current_year) ==
    Eng_clamp(FSum(<<
        Eng_price_term(listing, user_settings.weight_price_vs_market, current_year),
        Eng_mileage_term(listing, user_settings.weight_mileage_vs_year, current_year),
        Eng_fuel_term(listing, user_settings.weight_co2_tax_band),
        Frac(user_settings.weight_popularity_rarity, 2),
        IF listing.price_dropped THEN <<user_settings.weight_price_dropped, 1>> ELSE FZero,
        Eng_location_term(listing, user_settings.weight_location_match,
                          user_settings.approved_locations),
        Eng_freshness_term(listing.days_old, user_settings.weight_listing_freshness)>>))

\* Price factor (lines 241-250)
DP_price_points(price) ==
    IF ~TruthyNum(price) THEN 0
    ELSE IF price < 10000 THEN 20
    ELSE IF price < 20000 THEN 15
    ELSE IF price < 30000 THEN 10
    ELSE 5

\* Year factor (lines 253-264)
DP_year_points(year, current_year) ==
    IF ~TruthyNum(year) THEN 0
    ELSE IF current_year - year <= 2 THEN 20
    ELSE IF current_year - year <= 5 THEN 15
    ELSE IF current_year - year <= 10 THEN 10
    ELSE 5

\* Mileage factor (lines 267-278); avg_mileage is age * 15000 and the
\* comparisons with avg_mileage * 0.5 and * 1.5 are doubled
DP_mileage_points(mileage, year, current_year) ==
    IF ~TruthyNum(mileage) \/ ~TruthyNum(year) \/ current_year - year <= 0 THEN 0
    ELSE IF 2 * mileage < (current_year - year) * 15000 THEN 15
    ELSE IF mileage < (current_year - year) * 15000 THEN 10
    ELSE IF 2 * mileage < 3 * (current_year - year) * 15000 THEN 5
    ELSE 0

\* Fuel type factor (lines 281-287)
DP_fuel_points(fuel_type) ==
    IF Contains(Lower(fuel_type), Lower(FuelElectric)) THEN 10
    ELSE IF Contains(Lower(fuel_type), Lower(FuelHybrid)) THEN 8
    ELSE IF Contains(Lower(fuel_type), Lower(FuelDiesel)) THEN 5
    ELSE 0

\* max(0, min(100, score)) (line 290)
DP_clamp(score) == IF score > 100 THEN 100 ELSE IF score < 0 THEN 0 ELSE score

\* What makes the try block of calculate_deal_score raise: a price or a year
\* of the wrong type (lines 243, 256), a mileage of the wrong type when it is
\* compared (line 272), or a fuel_type of None, which has no .lower() (line
\* 281; an absent fuel_type reads as '').
DP_score_raises(listing_data, current_year) ==
    \/ GetNum(listing_data, "price") = NotANumber
    \/ GetNum(listing_data, "year") = NotANumber
    \/ /\ GetNum(listing_data, "mileage") = NotANumber
       /\ TruthyNum(GetNum(listing_data, "year"))
       /\ current_year - GetNum(listing_data, "year") > 0
    \/ /\ "fuel_type" \in DOMAIN listing_data
       /\ listing_data.fuel_type = NoText

\* DataProcessor.calculate_deal_score; when the block raises, the handler of
\* line 292 returns the default 50.
DP_calculate_deal_score(listing_data, current_year) ==
    IF DP_score_raises(listing_data, current_year) THEN 50
    ELSE DP_clamp(50 + DP_price_points(GetNum(listing_data, "price"))
                     + DP_year_points(GetNum(listing_data, "year"), current_year)
                     + DP_mileage_points(GetNum(listing_data, "mileage"),
                                         GetNum(listing_data, "year"), current_year)
                     + DP_fuel_points(IF "fuel_type" \in DOMAIN listing_data
                                      THEN listing_data.fuel_type ELSE <<>>))

\* 'deal_score': self.calculate_deal_score(listing_data) (line 133): the
\* score of the record as it came in, entered in the canonical listing.
WithDealScore(cleaned, listing_data, current_year) ==
    IF cleaned = Rejected THEN cleaned
    ELSE cleaned @@ [deal_score |-> DP_calculate_deal_score(listing_data, current_year)]

(***************************************************************************)
(* scraping_engine_conservative.py: ConservativeCarScrapingEngine          *)
(***************************************************************************)
\* One iteration of the loop of save_listings.  The query of lines 348-351
\* filters on CarListing.source, an attribute the class does not have
\* (models.py:144 declares source_site), so filter_by raises before any SQL
\* is sent and the handler of line 367 goes on to the next record.
Cons_save_one(listing_data, table) == table

\* ConservativeCarScrapingEngine.save_listings; the commit of line 371 finds
\* an empty session.
RECURSIVE save_listings(_, _)
save_listings(listings, table) ==
    IF listings = <<>> THEN table
    ELSE save_listings(Tail(listings), Cons_save_one(Head(listings), table))

(***************************************************************************)
(* Retention                                                               *)
(***************************************************************************)
\* DataProcessor.cleanup_old_listings (and the listings part of
\* ScrapingMonitor.cleanup_old_data): rows last seen before the cutoff go.
cleanup_old_listings(table, today, days_old) ==
    SelectSeq(table, LAMBDA r : ~(r.last_seen < today - days_old))

(***************************************************************************)
(* Inputs                                                                  *)
(***************************************************************************)
\* Raw records given to DataProcessor.process_listings: three titles on two
\* urls at a plausible price, one of them at a second plausible price, two
\* with a price below the plausible range, and four malformed ones (no title,
\* a title too short once cleaned, no url, a url without the http prefix).
DPRecords ==
    [title : {TitleA, TitleB, TitleC}, url : {Url1, Url2}, price : {PriceP}]
    \cup {[title |-> TitleB, url |-> Url2, price |-> PriceQ],
          [title |-> TitleA, url |-> Url1, price |-> PriceLow],
          [title |-> TitleC, url |-> Url2, price |-> PriceLow],
          [title |-> NoText, url |-> Url1, price |-> PriceP],
          [title |-> TitleShort, url |-> Url2, price |-> PriceP],
          [title |-> TitleA, url |-> NoText, price |-> PriceP],
          [title |-> TitleC, url |-> UrlBad, price |-> PriceP]}

\* Raw records given to CarScrapingEngine.process_listings: the dicts the
\* parsers build.  Three listings at two prices (the second shares the photo
\* but neither title nor url with the first, the third shares the title but
\* neither photo nor url with it), a record with an empty url, one with an
\* empty title, and one that carries no price.
EngRecords ==
    {[title |-> l[1], url |-> l[2], image_hash |-> l[3], price |-> p] :
        l \in {<<TitleA, Url1, "h1">>, <<TitleC, Url2, "h1">>, <<TitleA, Url2, NoVal>>},
        p \in {PriceQ, PriceP}}
    \cup {[title |-> TitleA, url |-> <<>>, image_hash |-> NoVal, price |-> PriceP],
          [title |-> <<>>, url |-> Url1, image_hash |-> NoVal, price |-> PriceP],
          [title |-> TitleC, url |-> Url1, image_hash |-> NoVal, price |-> NoNum]}

BatchesOf(records) == UNION {[1..n -> records] : n \in 0..MaxBatch}

(***************************************************************************)
(* routes/settings.py: the deal-scoring weights of a user                  *)
(***************************************************************************)
\* The weight columns of UserSettings and their defaults (models.py:68-74)
WeightNames ==
    {"weight_price_vs_market", "weight_mileage_vs_year", "weight_co2_tax_band",
     "weight_popularity_rarity", "weight_price_dropped", "weight_location_match",
     "weight_listing_freshness"}
WeightsDefault ==
    [weight_price_vs_market |-> 25, weight_mileage_vs_year |-> 20,
     weight_co2_tax_band |-> 15, weight_popularity_rarity |-> 15,
     weight_price_dropped |-> 10, weight_location_match |-> 10,
     weight_listing_freshness |-> 5]

\* max(0, min(100, int(data[field]))) (line 95)
ClampWeight(v) == IF v < 0 THEN 0 ELSE IF v > 100 THEN 100 ELSE v

\* What one field adds to total_weight (lines 94-97): nothing when the
\* request does not carry it.
WeightGiven(data, field) ==
    IF field \in DOMAIN data THEN ClampWeight(data[field]) ELSE 0

\* total_weight after the loop of lines 93-97
TotalWeight(data) ==
    WeightGiven(data, "weight_price_vs_market")
    + WeightGiven(data, "weight_mileage_vs_year")
    + WeightGiven(data, "weight_co2_tax_band")
    + WeightGiven(data, "weight_popularity_rarity")
    + WeightGiven(data, "weight_price_dropped")
    + WeightGiven(data, "weight_location_match")
    + WeightGiven(data, "weight_listing_freshness")

\* The setattr calls of line 96 on the weights w
SetWeights(w, data) ==
    [field \in WeightNames |->
        IF field \in DOMAIN data THEN ClampWeight(data[field]) ELSE w[field]]

\* update_settings on the stored weights w, for a request whose weight fields
\* are data and whose other fields pass (later_valid) or fail the checks of
\* lines 103-125.  int() of a value that is no number raises and the handler
\* of line 135 rolls back; a 400 returns before the commit of line 128, and
\* the request's session is discarded with its changes.
update_settings(w, data, later_valid) ==
    IF \E field \in DOMAIN data : data[field] = NotANumber
    THEN [code |-> 500, weights |-> w]
    ELSE IF TotalWeight(data) > 0 /\ TotalWeight(data) # 100
    THEN [code |-> 400, weights |-> w]
    ELSE IF ~later_valid
    THEN [code |-> 400, weights |-> w]
    ELSE [code |-> 200, weights |-> SetWeights(w, data)]

\* reset_weights (lines 226-236)
reset_weights(w) == [code |-> 200, weights |-> WeightsDefault]

(***************************************************************************)
(* State                                                                   *)
(***************************************************************************)
VARIABLES
    db,                 \* the committed car_listings table, in id order
    mode,               \* "idle", "dp", "eng" or "eng_done"
    runs,               \* runs and requests started so far
    batch,              \* raw_listings / listings of the current run
    idx,                \* records of the batch processed so far
    dbStart,            \* the table when the current run started
    processed_urls,     \* DataProcessor.processed_urls
    processed_titles,   \* DataProcessor.processed_titles
    stats,              \* stats of DataProcessor.process_listings
    txn,                \* the engine's session view of car_listings
    existing_listings,  \* ids of the engine's existing_listings
    sessFailed,         \* the engine's session needs a rollback
    new_count,          \* new_count of CarScrapingEngine.process_listings
    updated_count,      \* updated_count of CarScrapingEngine.process_listings
    now,                \* datetime.utcnow(), in days since the first run
    arg,                \* the arguments of a function called on its own
    ret,                \* what that call returned
    settings,           \* the weight columns of the user's UserSettings row
    scrape_logs,        \* the status column of scrape_logs, in id order
    pc                  \* where each start_scraping request is, and its log

vars == <<db, mode, runs, batch, idx, dbStart, processed_urls, processed_titles,
          stats, txn, existing_listings, sessFailed, new_count, updated_count,
          now, arg, ret, settings, scrape_logs, pc>>

dpVars == <<processed_urls, processed_titles, stats>>
engVars == <<txn, existing_listings, sessFailed, new_count, updated_count>>
envVars == <<now, arg, ret>>
webVars == <<settings, scrape_logs, pc>>

\* The requests start_scraping may be serving at the same time.
Requests == {1, 2}

\* Default settings, no scrape log, no request in progress.
WebInit ==
    /\ settings = WeightsDefault
    /\ scrape_logs = <<>>
    /\ pc = [p \in Requests |-> [at |-> "idle", log |-> 0]]

Init ==
    /\ db = <<>>
    /\ mode = "idle"
    /\ runs = 0
    /\ batch = <<>>
    /\ idx = 0
    /\ dbStart = <<>>
    /\ processed_urls = {}
    /\ processed_titles = {}
    /\ stats = ZeroStats
    /\ txn = <<>>
    /\ existing_listings = <<>>
    /\ sessFailed = FALSE
    /\ new_count = 0
    /\ updated_count = 0
    /\ now = 0
    /\ WebInit
    /\ arg = <<>>
    /\ ret = <<>>

\* What no run in progress leaves behind: only the table and the run count.
Idle ==
    /\ mode' = "idle"
    /\ batch' = <<>>
    /\ idx' = 0
    /\ dbStart' = <<>>
    /\ processed_urls' = {}
    /\ processed_titles' = {}
    /\ stats' = ZeroStats
    /\ txn' = <<>>
    /\ existing_listings' = <<>>
    /\ sessFailed' = FALSE
    /\ new_count' = 0
    /\ updated_count' = 0

(***************************************************************************)
(* DataProcessor.process_listings, one step per record                     *)
(***************************************************************************)
\* A fresh DataProcessor() is given a batch (routes/scraping.py:143, 160).
DPStart ==
    /\ mode = "idle"
    /\ runs < MaxRuns
    /\ \E raw_listings \in BatchesOf(DPRecords) :
          /\ batch' = raw_listings
          /\ stats' = [ZeroStats EXCEPT !.total_processed = Len(raw_listings)]
    /\ mode' = "dp"
    /\ runs' = runs + 1
    /\ idx' = 0
    /\ dbStart' = db
    /\ processed_urls' = {}
    /\ processed_titles' = {}
    /\ UNCHANGED <<db, engVars, envVars, webVars>>

DPStep ==
    /\ mode = "dp"
    /\ idx < Len(batch)
    /\ LET st == DP_process_one(batch[idx + 1],
                    [table |-> db, urls |-> processed_urls,
                     titles |-> processed_titles, stats |-> stats, now |-> now])
       IN  /\ db' = st.table
           /\ processed_urls' = st.urls
           /\ processed_titles' = st.titles
           /\ stats' = st.stats
    /\ idx' = idx + 1
    /\ UNCHANGED <<mode, runs, batch, dbStart, engVars, envVars, webVars>>

DPReturn ==
    /\ mode = "dp"
    /\ idx = Len(batch)
    /\ Idle
    /\ UNCHANGED <<db, runs, envVars, webVars>>

(***************************************************************************)
(* CarScrapingEngine.process_listings, one step per record                 *)
(***************************************************************************)
EngStart ==
    /\ mode = "idle"
    /\ runs < MaxRuns
    /\ \E listings \in BatchesOf(EngRecords) : batch' = listings
    /\ mode' = "eng"
    /\ runs' = runs + 1
    /\ idx' = 0
    /\ dbStart' = db
    /\ txn' = db
    /\ existing_listings' = ActiveIds(db)
    /\ sessFailed' = FALSE
    /\ new_count' = 0
    /\ updated_count' = 0
    /\ UNCHANGED <<db, dpVars, envVars, webVars>>

EngStep ==
    /\ mode = "eng"
    /\ idx < Len(batch)
    /\ LET st == Eng_process_one(batch[idx + 1],
                    [table |-> txn, known |-> existing_listings,
                     failed |-> sessFailed, new_count |-> new_count,
                     updated_count |-> updated_count, now |-> now])
       IN  /\ txn' = st.table
           /\ existing_listings' = st.known
           /\ sessFailed' = st.failed
           /\ new_count' = st.new_count
           /\ updated_count' = st.updated_count
    /\ idx' = idx + 1
    /\ UNCHANGED <<db, mode, runs, batch, dbStart, dpVars, envVars, webVars>>

EngCommit ==
    /\ mode = "eng"
    /\ idx = Len(batch)
    /\ db' = Eng_commit(db, [table |-> txn, failed |-> sessFailed])
    /\ mode' = "eng_done"
    /\ UNCHANGED <<runs, batch, idx, dbStart, dpVars, engVars, envVars, webVars>>

EngReturn ==
    /\ mode = "eng_done"
    /\ Idle
    /\ UNCHANGED <<db, runs, envVars, webVars>>

(***************************************************************************)
(* The other operations on car_listings                                    *)
(***************************************************************************)
\* celery_app.py:84: engine.save_listings(listings), as one step
ConservativeSave ==
    /\ mode = "idle"
    /\ runs < MaxRuns
    /\ \E listings \in BatchesOf(EngRecords) : db' = save_listings(listings, db)
    /\ runs' = runs + 1
    /\ UNCHANGED <<mode, batch, idx, dbStart, dpVars, engVars, envVars, webVars>>

\* A day passes between two runs.
Tick ==
    /\ mode = "idle"
    /\ now < MaxDay
    /\ now' = now + 1
    /\ UNCHANGED <<db, mode, runs, batch, idx, dbStart, dpVars, engVars, arg, ret,
                   webVars>>

\* DataProcessor().cleanup_old_listings(days_old)
Cleanup ==
    /\ mode = "idle"
    /\ \E days_old \in 0..MaxDaysOld :
          /\ db' = cleanup_old_listings(db, now, days_old)
          /\ db' # db
    /\ UNCHANGED <<mode, runs, batch, idx, dbStart, dpVars, engVars, envVars, webVars>>

(***************************************************************************)
(* Requests to routes/settings.py                                          *)
(***************************************************************************)
MaxFields == 2

\* Values a request may carry for a weight: below, at and above the ends of
\* 0..100, a half, and one that int() refuses.
WeightValues == {0 - 5, 0, 50, 100, 150, NotANumber}

\* The weight fields of a request body: up to MaxFields of them, or all seven
\* (the defaults, another split of 100, and 100 each).
WeightPayloads ==
    UNION {[S -> WeightValues] :
              S \in {T \in SUBSET WeightNames : Cardinality(T) <= MaxFields}}
    \cup {WeightsDefault,
          [WeightsDefault EXCEPT !.weight_price_vs_market = 30,
                                 !.weight_listing_freshness = 0],
          [field \in WeightNames |-> 100]}

\* PUT /api/settings/
UpdateSettings ==
    /\ runs < MaxRuns
    /\ \E data \in WeightPayloads, later_valid \in BOOLEAN :
          /\ arg' = [data |-> data, later_valid |-> later_valid]
          /\ settings' = update_settings(settings, data, later_valid).weights
          /\ ret' = [code |-> update_settings(settings, data, later_valid).code]
    /\ runs' = runs + 1
    /\ UNCHANGED <<db, mode, batch, idx, dbStart, dpVars, engVars, now,
                   scrape_logs, pc>>

\* POST /api/settings/reset-weights
ResetWeights ==
    /\ runs < MaxRuns
    /\ arg' = <<>>
    /\ settings' = reset_weights(settings).weights
    /\ ret' = [code |-> reset_weights(settings).code]
    /\ runs' = runs + 1
    /\ UNCHANGED <<db, mode, batch, idx, dbStart, dpVars, engVars, now,
                   scrape_logs, pc>>

NextSettings == UpdateSettings \/ ResetWeights
SpecSettings == Init /\ [][NextSettings]_vars

(***************************************************************************)
(* routes/scraping.py: start_scraping, one step per round trip to the      *)
(* database.  The tasks of celery_app.py are not part of the model: the    *)
(* module does not compile (lines 58, 117, 196 and 232 break the           *)
(* indentation of their blocks), so no worker can load it.                 *)
(***************************************************************************)
\* db.session.query(ScrapeLog.id).filter_by(status='running').count()
running_scrapes(logs) == Cardinality({i \in DOMAIN logs : logs[i] = "running"})

\* Lines 117-120: the count is read; the request is refused with 409 when a
\* log is running and goes on otherwise.
StartCheck(p) ==
    /\ pc[p].at = "idle"
    /\ runs < MaxRuns
    /\ runs' = runs + 1
    /\ IF running_scrapes(scrape_logs) > 0
       THEN /\ ret' = [code |-> 409]
            /\ pc' = pc
       ELSE /\ ret' = ret
            /\ pc' = [pc EXCEPT ![p].at = "passed"]
    /\ UNCHANGED <<db, mode, batch, idx, dbStart, dpVars, engVars, now, arg,
                   settings, scrape_logs>>

\* Lines 126-134: the log is added with status 'running' and committed.
StartInsert(p) ==
    /\ pc[p].at = "passed"
    /\ scrape_logs' = Append(scrape_logs, "running")
    /\ pc' = [pc EXCEPT ![p] = [at |-> "scraping", log |-> Len(scrape_logs) + 1]]
    /\ UNCHANGED <<db, mode, runs, batch, idx, dbStart, dpVars, engVars, envVars,
                   settings>>

\* Lines 136-180: the sites are scraped and the listings go through a fresh
\* DataProcessor, then the log is completed and the response is 200; or the
\* block raises, the log is failed and committed, and building the response
\* raises in turn (processing_stats is unbound), which gives 500.
StartScrape(p) ==
    /\ pc[p].at = "scraping"
    /\ \/ /\ \E raw_listings \in BatchesOf(DPRecords) :
                db' = DP_loop(raw_listings, 1,
                              [table |-> db, urls |-> {}, titles |-> {},
                               stats |-> ZeroStats, now |-> now]).table
          /\ scrape_logs' = [scrape_logs EXCEPT ![pc[p].log] = "completed"]
          /\ ret' = [code |-> 200]
       \/ /\ db' = db
          /\ scrape_logs' = [scrape_logs EXCEPT ![pc[p].log] = "failed"]
          /\ ret' = [code |-> 500]
    /\ pc' = [pc EXCEPT ![p] = [at |-> "idle", log |-> 0]]
    /\ UNCHANGED <<mode, runs, batch, idx, dbStart, dpVars, engVars, now, arg,
                   settings>>

NextStart == \E p \in Requests : StartCheck(p) \/ StartInsert(p) \/ StartScrape(p)
SpecStart == Init /\ [][NextStart]_vars

NextDP == DPStart \/ DPStep \/ DPReturn
NextEng == EngStart \/ EngStep \/ EngCommit \/ EngReturn
Next ==
    \/ DPStart \/ DPStep \/ DPReturn
    \/ EngStart \/ EngStep \/ EngCommit \/ EngReturn
    \/ ConservativeSave \/ Tick \/ Cleanup

Spec == Init /\ [][Next]_vars

\* The runs of DataProcessor over the days, with the retention policy.
NextRetention == DPStart \/ DPStep \/ DPReturn \/ Tick \/ Cleanup
SpecRetention == Init /\ [][NextRetention]_vars
SpecDP == Init /\ [][NextDP]_vars
SpecEng == Init /\ [][NextEng]_vars

(***************************************************************************)
(* The engine on a repository that holds one listing whose status was set  *)
(* outside the ingestion path.                                             *)
(***************************************************************************)
\* The values of CarListing.status (models.py:158)
Statuses == {"active", "removed", "blocked"}

\* The row of a listing stored on day 0 and given the status since.
StoredRow(listing_data, status) ==
    [NewRow(<<>>, listing_data.title, listing_data.price, listing_data.url,
            listing_data.image_hash, FALSE, NoNum, 0) EXCEPT !.status = status]

InitMarked ==
    /\ db \in {<<StoredRow(r, status)>> :
                  r \in {x \in EngRecords : x.price = PriceP /\ x.image_hash = "h1"},
                  status \in Statuses}
    /\ mode = "idle"
    /\ runs = 0
    /\ batch = <<>>
    /\ idx = 0
    /\ dbStart = <<>>
    /\ processed_urls = {}
    /\ processed_titles = {}
    /\ stats = ZeroStats
    /\ txn = <<>>
    /\ existing_listings = <<>>
    /\ sessFailed = FALSE
    /\ new_count = 0
    /\ updated_count = 0
    /\ now = 0
    /\ WebInit
    /\ arg = <<>>
    /\ ret = <<>>

SpecMarked == InitMarked /\ [][NextEng]_vars

(***************************************************************************)
(* The three-record scenario: one DataProcessor run over a batch of three  *)
(* records on an empty repository.                                         *)
(***************************************************************************)
InitScenario ==
    /\ db = <<>>
    /\ mode = "dp"
    /\ runs = MaxRuns
    /\ batch \in [1..3 -> DPRecords]
    /\ idx = 0
    /\ dbStart = <<>>
    /\ processed_urls = {}
    /\ processed_titles = {}
    /\ stats = [ZeroStats EXCEPT !.total_processed = 3]
    /\ txn = <<>>
    /\ existing_listings = <<>>
    /\ sessFailed = FALSE
    /\ new_count = 0
    /\ updated_count = 0
    /\ now = 0
    /\ WebInit
    /\ arg = <<>>
    /\ ret = <<>>

NextScenario == DPStep \/ DPReturn
SpecScenario == InitScenario /\ [][NextScenario]_vars

(***************************************************************************)
(* Functions called on their own: the arguments are drawn in the initial   *)
(* state and one step makes the call.                                      *)
(***************************************************************************)
\* Nothing is stored and no run is in progress.
NoRun ==
    /\ db = <<>>
    /\ runs = 0
    /\ batch = <<>>
    /\ idx = 0
    /\ dbStart = <<>>
    /\ processed_urls = {}
    /\ processed_titles = {}
    /\ stats = ZeroStats
    /\ txn = <<>>
    /\ existing_listings = <<>>
    /\ sessFailed = FALSE
    /\ new_count = 0
    /\ updated_count = 0
    /\ now = 0
    /\ WebInit

callFrame == <<db, runs, batch, idx, dbStart, dpVars, engVars, now, arg, webVars>>

\* datetime.now().year at the time of the call
CurrentYears == {2025, 2026}

LocDublin == <<"D","u","b","l","i","n">>
LocDub == <<"D","u","b">>

\* Listings to score: each field absent (None) or present, with prices,
\* years and mileages of either sign of the ratios the score divides by.
ScoreListings ==
    [price : {NoNum, 12000, 0 - 1000},
     year : {NoNum, 2020, 2030},
     mileage : {NoNum, 30000, 0 - 36000, 0 - 60000},
     fuel_type : {NoText, <<>>, FuelElectric, FuelDiesel, FuelPetrol},
     price_dropped : BOOLEAN,
     location : {NoText, LocDublin},
     days_old : {NoNum, 0, 15, 45}]

\* UserSettings for the score: the default weights, the same weights
\* negated, and weights of 100 each.
WeightsNegative == [k \in WeightNames |-> 0 - WeightsDefault[k]]
WeightsOver == [k \in WeightNames |-> 100]
WithLocations(weights, approved_locations) ==
    weights @@ [approved_locations |-> approved_locations]
ScoreSettings ==
    {WithLocations(w, a) : w \in {WeightsDefault, WeightsNegative, WeightsOver},
                           a \in {<<>>, <<LocDub>>}}

InitScore ==
    /\ NoRun
    /\ mode = "score"
    /\ arg \in [listing : ScoreListings, user_settings : ScoreSettings,
                 current_year : CurrentYears]
    /\ ret = <<>>

\* engine.calculate_deal_score(listing, user_settings)
EngScore ==
    /\ mode = "score"
    /\ mode' = "score_eng"
    /\ ret' = [score |-> Eng_calculate_deal_score(arg.listing, arg.user_settings,
                                                  arg.current_year)]
    /\ UNCHANGED callFrame

\* processor.calculate_deal_score(listing_data)
DPScore ==
    /\ mode = "score"
    /\ mode' = "score_dp"
    /\ ret' = [score |-> DP_calculate_deal_score(arg.listing, arg.current_year)]
    /\ UNCHANGED callFrame

NextScore == EngScore \/ DPScore
SpecScore == InitScore /\ [][NextScore]_vars

\* Raw records for clean_listing_data: a title that passes and one that is
\* too short once cleaned, and each numeric field absent, of the wrong type,
\* zero, negative and on both sides of each end of its range; records whose
\* title or url is None, empty or not a web address, and one without a url.
CleanInputs ==
    [title : {TitleA, TitleShort},
     url : {Url1},
     price : {NoNum, NotANumber, 0, 0 - 1, MinPrice - 1, MinPrice, MaxPrice,
              MaxPrice + 1},
     year : {NoNum, NotANumber, 0, MinYear - 1, MinYear, 2024, 2025, 2026, 2027,
             2028},
     mileage : {NoNum, NotANumber, 0, 0 - 1, MaxMileage, MaxMileage + 1}]
    \cup [title : {NoText, <<>>, TitleA}, url : {NoText, UrlBad}]
    \cup [title : {TitleA}]

InitClean ==
    /\ NoRun
    /\ mode = "clean"
    /\ arg \in [listing_data : CleanInputs, current_year : CurrentYears]
    /\ ret = <<>>

\* processor.clean_listing_data(listing_data)
CleanCall ==
    /\ mode = "clean"
    /\ mode' = "clean_done"
    /\ ret' = WithDealScore(clean_listing_data(arg.listing_data),
                            arg.listing_data, arg.current_year)
    /\ UNCHANGED callFrame

NextClean == CleanCall
SpecClean == InitClean /\ [][NextClean]_vars

\* Two raw records for clean_listing_data: prices, years and mileages inside
\* and outside their ranges, and a fuel_type that is None, empty or diesel.
PairInputs ==
    [title : {TitleA}, url : {Url1},
     price : {NoNum, MinPrice - 1, PriceP, MaxPrice + 1},
     year : {NoNum, 2020, MaxYear + 5},
     mileage : {NoNum, 30000},
     fuel_type : {NoText, <<>>, FuelDiesel}]

InitCleanPair ==
    /\ NoRun
    /\ mode = "pair"
    /\ arg \in [listing_data : PairInputs, other : PairInputs,
                 current_year : CurrentYears]
    /\ ret = <<>>

\* processor.clean_listing_data on one record, then on the other
CleanPair ==
    /\ mode = "pair"
    /\ mode' = "pair_done"
    /\ ret' = <<WithDealScore(clean_listing_data(arg.listing_data),
                              arg.listing_data, arg.current_year),
                WithDealScore(clean_listing_data(arg.other),
                              arg.other, arg.current_year)>>
    /\ UNCHANGED callFrame

NextCleanPair == CleanPair
SpecCleanPair == InitCleanPair /\ [][NextCleanPair]_vars

\* Arguments of CarScrapingEngine.is_duplicate: a candidate at PriceP and one
\* or two known listings whose prices are PriceP or lie just inside, on and
\* just outside the tolerance.
DupCandidates ==
    [title : {TitleA, TitleB, TitleC}, price : {PriceP}, image_hash : {NoVal, "h1"}]
DupKnown ==
    [title : {TitleA, TitleB, TitleC},
     price : {PriceP, PriceP + PriceTolerance - 1, PriceP + PriceTolerance,
              PriceP + PriceTolerance + 1, PriceP - PriceTolerance},
     image_hash : {NoVal, "h1", "h2"}]
WithId(listing, id) == listing @@ [id |-> id]
DupKnownLists ==
    {<<WithId(x, 1)>> : x \in DupKnown}
    \cup {<<WithId(x, 1), WithId(y, 2)>> : x \in DupKnown, y \in DupKnown}

InitDup ==
    /\ NoRun
    /\ mode = "dup"
    /\ arg \in [new_listing : DupCandidates, existing_listings : DupKnownLists]
    /\ ret = <<>>

\* engine.is_duplicate(new_listing, existing_listings)
DupCall ==
    /\ mode = "dup"
    /\ mode' = "dup_done"
    /\ ret' = Eng_is_duplicate(arg.new_listing, arg.existing_listings)
    /\ UNCHANGED callFrame

NextDup == DupCall
SpecDup == InitDup /\ [][NextDup]_vars

(***************************************************************************)
(* Claims                                                                  *)
(***************************************************************************)
DPDone == mode = "dp" /\ idx = Len(batch)
EngDone == mode = "eng_done"

RowsWithUrl(table, url) == {i \in DOMAIN table : table[i].url = url}

\* C1: when a DataProcessor run ingests a single raw listing whose row (same
\* url, title and price) an earlier run has persisted, the run reports
\* new_listings = 0 and updated_listings = 1 and the url still has one row.
C1_RepeatIsUpdate ==
    (/\ DPDone
     /\ Len(batch) = 1
     /\ clean_listing_data(batch[1]) # Rejected
     /\ \E i \in DOMAIN dbStart :
           /\ dbStart[i].url = clean_listing_data(batch[1]).url
           /\ dbStart[i].title = clean_listing_data(batch[1]).title
           /\ dbStart[i].price = clean_listing_data(batch[1]).price)
    => /\ stats.new_listings = 0
       /\ stats.updated_listings = 1
       /\ Cardinality(RowsWithUrl(db, batch[1].url)) = 1

\* C2: when an engine run whose batch is a single record finds its url
\* persisted at a higher price, it counts one update and no new listing and
\* leaves the persisted row with price_dropped = true.
C2_LowerPriceFlagsDrop ==
    (/\ EngDone
     /\ Len(batch) = 1
     /\ batch[1].price # NoNum
     /\ \E i \in DOMAIN dbStart :
           dbStart[i].url = batch[1].url /\ batch[1].price < dbStart[i].price)
    => /\ updated_count = 1
       /\ new_count = 0
       /\ \A i \in RowsWithUrl(db, batch[1].url) : db[i].price_dropped

\* C3: in every step of the engine that re-ingests the url of a row whose
\* previous_price P is not null: a price Q < P sets price_dropped,
\* price_drop_amount = P - Q and previous_price = Q; a price R > P leaves
\* price_dropped as it was (a rise never clears it) and sets
\* previous_price = R; and the commit that ends a run without a failed
\* flush persists these rows.
C3_step ==
    (mode = "eng" /\ idx' = idx + 1 /\ ~sessFailed /\ ~sessFailed') =>
    LET rec == batch[idx + 1]
        e == FindByUrl(txn, rec.url)
    IN  (e # 0 /\ txn[e].previous_price # NoNum /\ rec.price # NoNum) =>
        /\ rec.price < txn[e].previous_price =>
              /\ txn'[e].price_dropped
              /\ txn'[e].price_drop_amount = txn[e].previous_price - rec.price
              /\ txn'[e].previous_price = rec.price
        /\ rec.price > txn[e].previous_price =>
              /\ txn'[e].price_dropped = txn[e].price_dropped
              /\ txn'[e].previous_price = rec.price
C3_commit ==
    (mode = "eng" /\ mode' = "eng_done" /\ ~sessFailed /\ AllFlushable(txn))
    => db' = txn
C3_PriceDropTracking == [][C3_step /\ C3_commit]_vars

\* A persisted row that dropped by PriceP - PriceQ and then rose back.
C3_Witness ==
    /\ EngDone
    /\ \E i \in DOMAIN db :
          /\ db[i].price_dropped
          /\ db[i].price_drop_amount = PriceP - PriceQ
          /\ db[i].previous_price = PriceP
          /\ \E j \in DOMAIN dbStart :
                /\ dbStart[j].url = db[i].url
                /\ dbStart[j].previous_price = PriceP
                /\ ~dbStart[j].price_dropped

\* C4: of two rows with different urls that carry the same non-empty
\* image_hash, in the session and in the committed table, the one ingested
\* second is flagged is_duplicate, whatever their titles and prices.
SameImageFlagged(table) ==
    \A i, j \in DOMAIN table :
        (/\ table[i].id < table[j].id
         /\ table[i].url # table[j].url
         /\ TruthyStr(table[j].image_hash)
         /\ table[i].image_hash = table[j].image_hash)
        => table[j].is_duplicate
C4_ImageHashDuplicate ==
    /\ SameImageFlagged(db)
    /\ mode = "eng" /\ ~sessFailed => SameImageFlagged(txn)

\* The first row was persisted by an earlier run, the second has another
\* title, a price 1000 away, and is flagged.
C4_Witness ==
    /\ EngDone
    /\ Len(dbStart) = 1
    /\ Len(db) = 2
    /\ db[1].image_hash = db[2].image_hash
    /\ TruthyStr(db[2].image_hash)
    /\ ~EngTitleSimilar(db[1].title, db[2].title)
    /\ Abs(db[1].price - db[2].price) >= PriceTolerance
    /\ db[2].is_duplicate

\* C5: a batch <<A, B, C>> on an empty repository, A a listing that
\* normalises with a plausible price, B a listing that normalises, has
\* another url and a title more than 0.9 similar to A's, C a record without
\* url: the statistics are 3 / 1 new / 0 updated / 1 duplicate / 1 error and
\* the only row is A's.
ScenarioABC(b) ==
    LET A == clean_listing_data(b[1])
        B == clean_listing_data(b[2])
    IN  /\ Len(b) = 3
        /\ A # Rejected
        /\ A.price # NoNum
        /\ B # Rejected
        /\ B.url # A.url
        /\ RatioExceeds(Lower(B.title), Lower(A.title), 9, 10)
        /\ ~TruthyText(GetText(b[3], "url"))
C5_ThreeRecordScenario ==
    (DPDone /\ dbStart = <<>> /\ ScenarioABC(batch))
    => /\ stats = [total_processed |-> 3, new_listings |-> 1, updated_listings |-> 0,
                   duplicates_skipped |-> 1, errors |-> 1]
       /\ Len(db) = 1
       /\ db[1].url = batch[1].url
       /\ db[1].title = clean_text(batch[1].title)

C5_Witness ==
    /\ DPDone
    /\ dbStart = <<>>
    /\ ScenarioABC(batch)
    /\ batch[1].title # batch[2].title
    /\ stats.duplicates_skipped = 1

\* C6: a step of DataProcessor.process_listings on a record whose title is
\* missing or shorter than 10 characters once cleaned, or whose url is
\* missing, is rejected by clean_listing_data, adds exactly 1 to errors and
\* nothing to the other counters, and changes neither the table nor the
\* working sets.
RejectionCase(rec) ==
    \/ ~TruthyText(GetText(rec, "title"))
    \/ Len(clean_text(GetText(rec, "title"))) < MinTitleLen
    \/ ~TruthyText(GetText(rec, "url"))
C6_step ==
    (mode = "dp" /\ idx' = idx + 1 /\ RejectionCase(batch[idx + 1])) =>
        /\ clean_listing_data(batch[idx + 1]) = Rejected
        /\ stats' = [stats EXCEPT !.errors = @ + 1]
        /\ db' = db
        /\ processed_urls' = processed_urls
        /\ processed_titles' = processed_titles
C6_RejectionBoundary == [][C6_step]_vars

\* A record whose title has 10 characters raw and 9 once cleaned was counted
\* as the second error of a run that stored nothing.
C6_Witness ==
    /\ mode = "dp"
    /\ idx = 2
    /\ batch[2].title = TitleShort
    /\ RejectionCase(batch[1])
    /\ stats.errors = 2
    /\ db = dbStart

\* The state of DataProcessor.process_listings before record i of the batch
StartState ==
    [table |-> dbStart, urls |-> {}, titles |-> {},
     stats |-> [ZeroStats EXCEPT !.total_processed = Len(batch)], now |-> now]
RECURSIVE StateBefore(_)
StateBefore(i) ==
    IF i = 1 THEN StartState
    ELSE DP_process_one(batch[i - 1], StateBefore(i - 1))

\* Record i was counted as an error.
FailedAt(i) ==
    DP_process_one(batch[i], StateBefore(i)).stats.errors = StateBefore(i).stats.errors + 1

RemoveAt(seq, i) == SubSeq(seq, 1, i - 1) \o SubSeq(seq, i + 1, Len(seq))

\* C7: at the end of a DataProcessor run, for every record that failed, the
\* table and the counters other than errors are what the run without that
\* record produces, and errors is one more.
C7_FailureIsolated ==
    DPDone =>
    \A i \in DOMAIN batch :
        FailedAt(i) =>
        LET alt == DP_loop(RemoveAt(batch, i), 1, StartState)
        IN  /\ db = alt.table
            /\ stats.new_listings = alt.stats.new_listings
            /\ stats.updated_listings = alt.stats.updated_listings
            /\ stats.duplicates_skipped = alt.stats.duplicates_skipped
            /\ stats.errors = alt.stats.errors + 1

\* C8: when an engine run ends, every row the run inserted or updated that
\* can itself be written (no null in a NOT NULL column) is in the committed
\* table.
C8_NoBatchRollback ==
    EngDone =>
    \A i \in DOMAIN txn :
        Flushable(txn[i]) => (i \in DOMAIN db /\ db[i] = txn[i])

\* C9: every url and title in the working sets of a DataProcessor run
\* belongs to a row of the table (to a record that was stored).
C9_NoLeakIntoWorkingSets ==
    mode = "dp" =>
    /\ \A u \in processed_urls : \E i \in DOMAIN db : db[i].url = u
    /\ \A t \in processed_titles : \E i \in DOMAIN db : db[i].title = t

\* C10: every persisted row has a non-empty title and a url that starts
\* with http.
C10_ValidRowsOnly ==
    \A i \in DOMAIN db :
        /\ TruthyText(db[i].title)
        /\ db[i].url # NoText
        /\ StartsWith(db[i].url, Http)

\* C11: no two rows of the committed table, nor of the engine's session,
\* have the same url; a step of either ingestion loop on a record whose url
\* already has a row leaves the number of rows unchanged; and while a run is
\* in progress every url the table held at its start still has exactly one
\* committed row.
UniqueUrls(table) ==
    \A i, j \in DOMAIN table : table[i].url = table[j].url => i = j
C11_step ==
    /\ (mode = "dp" /\ idx' = idx + 1
        /\ RowsWithUrl(db, GetText(batch[idx + 1], "url")) # {})
       => Len(db') = Len(db)
    /\ (mode = "eng" /\ idx' = idx + 1
        /\ RowsWithUrl(txn, batch[idx + 1].url) # {})
       => Len(txn') = Len(txn)
C11_after ==
    /\ UniqueUrls(db')
    /\ UniqueUrls(txn')
    /\ mode' # "idle" =>
          \A i \in DOMAIN dbStart' :
              Cardinality(RowsWithUrl(db', dbStart'[i].url)) = 1
C11_UrlIsNaturalKey == [][C11_step /\ C11_after]_vars

\* An engine run on an empty table whose batch holds the same url twice,
\* at two prices, committed one row.
C11_Witness ==
    /\ EngDone
    /\ dbStart = <<>>
    /\ Len(batch) = 2
    /\ batch[1].url = batch[2].url
    /\ batch[1].price # batch[2].price
    /\ Len(db) = 1
    /\ updated_count = 1

\* C12: CarScrapingEngine.calculate_deal_score returns a value in
\* [0, 100] for every listing and for default, negative and oversized
\* weights, and DataProcessor.calculate_deal_score returns an integer in
\* [0, 100] for every raw record.
C12_ScoreBounded ==
    /\ mode = "score_eng" => FLeq(FZero, ret.score) /\ FLeq(ret.score, FHundred)
    /\ mode = "score_dp" => ret.score \in 0..100

\* Weights of 100 each on a listing whose unclamped score is at least 150
\* gave exactly 100.
C12_Witness ==
    /\ mode = "score_eng"
    /\ arg.user_settings.weight_popularity_rarity = 100
    /\ arg.listing.price_dropped
    /\ arg.listing.price = NoNum
    /\ arg.listing.mileage = NoNum
    /\ ret.score = FHundred

\* C13: a step of DataProcessor.process_listings on a record that
\* clean_listing_data accepts, whose price, year or mileage is outside its
\* plausible range and which is not a duplicate, stores the record as a new
\* row with that field null and does not count an error.
OutOfRange(rec) ==
    \/ TruthyNum(GetNum(rec, "price"))
       /\ (GetNum(rec, "price") < MinPrice \/ GetNum(rec, "price") > MaxPrice)
    \/ TruthyNum(GetNum(rec, "year"))
       /\ (GetNum(rec, "year") < MinYear \/ GetNum(rec, "year") > MaxYear)
    \/ TruthyNum(GetNum(rec, "mileage"))
       /\ (GetNum(rec, "mileage") < 0 \/ GetNum(rec, "mileage") > MaxMileage)
C13_step ==
    (/\ mode = "dp"
     /\ idx' = idx + 1
     /\ clean_listing_data(batch[idx + 1]) # Rejected
     /\ OutOfRange(batch[idx + 1])
     /\ ~DP_is_duplicate(clean_listing_data(batch[idx + 1]),
                         processed_urls, processed_titles, db).dup)
    => /\ Len(db') = Len(db) + 1
       /\ db'[Len(db')].url = batch[idx + 1].url
       /\ stats'.errors = stats.errors
       /\ stats'.new_listings = stats.new_listings + 1
C13_OutOfRangeStillStored == [][C13_step]_vars

\* C14: the price of every canonical listing clean_listing_data returns
\* is null or in [500, 200000].
C14_PriceInRange ==
    (mode = "clean_done" /\ ret # Rejected)
    => (ret.price = NoNum \/ ret.price \in MinPrice..MaxPrice)

\* C15: the year of every canonical listing clean_listing_data returns is
\* null or in [1990, current_year + 1]; a raw year of current_year or
\* current_year + 1 is kept and a raw year outside the range is nulled.
C15_YearInRange ==
    (mode = "clean_done" /\ ret # Rejected)
    => /\ (ret.year = NoNum \/ ret.year \in MinYear..(arg.current_year + 1))
       /\ arg.listing_data.year \in {arg.current_year, arg.current_year + 1}
             => ret.year = arg.listing_data.year
       /\ (/\ arg.listing_data.year # NoNum
           /\ arg.listing_data.year \notin MinYear..(arg.current_year + 1))
             => ret.year = NoNum

\* C16: CarScrapingEngine.is_duplicate reports a duplicate whenever some
\* known listing has a title more than 0.8 similar to the candidate's and a
\* price at most 50 away from it.
C16_PriceWithinFifty ==
    (/\ mode = "dup_done"
     /\ \E i \in DOMAIN arg.existing_listings :
           /\ EngTitleSimilar(arg.new_listing.title, arg.existing_listings[i].title)
           /\ Abs(arg.new_listing.price - arg.existing_listings[i].price)
                 <= PriceTolerance)
    => ret.dup

\* C17: when a DataProcessor run on an empty table has processed a batch
\* of two records that clean_listing_data accepts with a price, on different
\* urls and with prices more than 50 apart, both are stored (however similar
\* their titles) and none is counted as a duplicate.
C17_PriceGuardsTitleMatch ==
    (/\ DPDone
     /\ dbStart = <<>>
     /\ Len(batch) = 2
     /\ clean_listing_data(batch[1]) # Rejected
     /\ clean_listing_data(batch[2]) # Rejected
     /\ TruthyNum(clean_listing_data(batch[1]).price)
     /\ TruthyNum(clean_listing_data(batch[2]).price)
     /\ batch[1].url # batch[2].url
     /\ Abs(batch[1].price - batch[2].price) > PriceTolerance)
    => /\ Len(db) = 2
       /\ stats.duplicates_skipped = 0

\* C18: in a step of the engine on a record with a title and a price whose
\* url has no row, is_duplicate returns (True, id) with id the id of the
\* first known listing, in the order of existing_listings, that satisfies
\* the duplicate rule, and (False, None) when there is none; the row the
\* step adds carries is_duplicate = true and duplicate_group_id = id in the
\* first case, is_duplicate = false and no duplicate_group_id in the second.
MatchingPositions(new_listing, known) ==
    {i \in DOMAIN known : DuplicateRule(new_listing, known[i])}
FirstPosition(positions) == CHOOSE i \in positions : \A j \in positions : i <= j
ExpectedVerdict(new_listing, known) ==
    IF MatchingPositions(new_listing, known) = {}
    THEN [raise |-> FALSE, dup |-> FALSE, id |-> NoNum]
    ELSE [raise |-> FALSE, dup |-> TRUE,
          id |-> known[FirstPosition(MatchingPositions(new_listing, known))].id]
C18_step ==
    (/\ mode = "eng"
     /\ idx' = idx + 1
     /\ ~sessFailed
     /\ AllFlushable(txn)
     /\ batch[idx + 1].title # NoText
     /\ batch[idx + 1].price # NoNum
     /\ RowsWithUrl(txn, batch[idx + 1].url) = {})
    => /\ Eng_is_duplicate(batch[idx + 1], KnownRows(txn, existing_listings))
             = ExpectedVerdict(batch[idx + 1], KnownRows(txn, existing_listings))
       /\ Len(txn') = Len(txn) + 1
       /\ txn'[Len(txn')].url = batch[idx + 1].url
       /\ txn'[Len(txn')].is_duplicate
             = ExpectedVerdict(batch[idx + 1], KnownRows(txn, existing_listings)).dup
       /\ txn'[Len(txn')].duplicate_group_id
             = ExpectedVerdict(batch[idx + 1], KnownRows(txn, existing_listings)).id
C18_FirstMatchWins == [][C18_step]_vars

\* The third row matches the first two and is grouped with the first; the
\* second row is not a duplicate of anything but the first.
C18_Witness ==
    /\ mode = "eng"
    /\ ~sessFailed
    /\ Len(txn) = 3
    /\ DuplicateRule(txn[3], txn[1])
    /\ DuplicateRule(txn[3], txn[2])
    /\ txn[3].is_duplicate
    /\ txn[3].duplicate_group_id = txn[1].id
    /\ txn[1].id # txn[2].id

\* C19: no step of DataProcessor.process_listings, of
\* CarScrapingEngine.process_listings or of save_listings changes the status
\* of a row that exists, in the table or in the engine's session, and every
\* row a step creates has status 'active'.
StatusKept(before, after) ==
    \A i \in DOMAIN before : \A j \in DOMAIN after :
        before[i].id = after[j].id => after[j].status = before[i].status
CreatedActive(before, after) ==
    \A j \in DOMAIN after :
        (\A i \in DOMAIN before : before[i].id # after[j].id)
            => after[j].status = "active"
C19_step ==
    /\ StatusKept(db, db')
    /\ CreatedActive(db, db')
    /\ (mode = "eng" /\ mode' = "eng") =>
          (StatusKept(txn, txn') /\ CreatedActive(txn, txn'))
    /\ (mode # "idle" /\ mode' = "idle") =>
          (StatusKept(dbStart, db') /\ CreatedActive(dbStart, db'))
IdsOf(table) == {table[i].id : i \in DOMAIN table}
C20_step ==
    /\ (mode # "idle" \/ mode' # "idle") => IdsOf(db) \subseteq IdsOf(db')
    /\ (mode # "idle" /\ mode' = "idle") => IdsOf(dbStart) \subseteq IdsOf(db')
    /\ ~(IdsOf(db) \subseteq IdsOf(db')) =>
          /\ mode = "idle"
          /\ mode' = "idle"
          /\ \E days_old \in 0..MaxDaysOld :
                db' = cleanup_old_listings(db, now, days_old)
CanonicalFields ==
    {"title", "price", "location", "url", "image_hash", "year", "mileage",
     "fuel_type", "deal_score", "is_duplicate"}
C21_step ==
    (mode = "clean" /\ mode' = "clean_done")
    => /\ (ret' = Rejected \/ DOMAIN ret' = CanonicalFields)
       /\ ret' # Raised
       /\ processed_urls' = processed_urls
       /\ processed_titles' = processed_titles
       /\ db' = db
       /\ arg' = arg
C21_TotalAndPure == [][C21_step]_vars

\* A comparison inside the function raised, and the call returned a
\* rejection.
C21_Witness ==
    /\ mode = "clean_done"
    /\ clean_try(arg.listing_data) = Raised
    /\ ret = Rejected

\* C22: after any sequence of update_settings and reset_weights requests
\* from the default settings, the seven stored weights sum to 100.
SumWeights(w) ==
    w.weight_price_vs_market + w.weight_mileage_vs_year + w.weight_co2_tax_band
    + w.weight_popularity_rarity + w.weight_price_dropped
    + w.weight_location_match + w.weight_listing_freshness
C22_WeightsSumTo100 == SumWeights(settings) = 100

C24_step ==
    (/\ mode = "dp"
     /\ idx' = idx + 1
     /\ clean_listing_data(batch[idx + 1]) # Rejected
     /\ RowsWithUrl(dbStart, batch[idx + 1].url) # {})
    => \A i \in RowsWithUrl(dbStart, batch[idx + 1].url) :
          /\ i \in DOMAIN db'
          /\ db'[i].url = batch[idx + 1].url
          /\ db'[i].last_seen = now
          /\ db'[i].price = clean_listing_data(batch[idx + 1]).price
C24_SightingRefreshes == [][C24_step]_vars

\* C25: a step of CarScrapingEngine.process_listings leaves every row whose
\* status is 'removed' or 'blocked' as it was (price, last_seen,
\* previous_price and the price-drop fields), also when the record's url is
\* that row's.
C25_step ==
    (mode = "eng" /\ idx' = idx + 1)
    => \A i \in DOMAIN txn :
          txn[i].status # "active" =>
             /\ txn'[i].price = txn[i].price
             /\ txn'[i].last_seen = txn[i].last_seen
             /\ txn'[i].previous_price = txn[i].previous_price
             /\ txn'[i].price_dropped = txn[i].price_dropped
             /\ txn'[i].price_drop_amount = txn[i].price_drop_amount
C25_OnlyActiveRowsUpdated == [][C25_step]_vars

\* C26: DataProcessor.calculate_deal_score returns min(100, 50 + price
\* bonus + year bonus + mileage-for-age bonus + fuel bonus), where the bonus
\* of a field that is absent or null is 0, also for a record whose
\* fuel_type is null.
BonusOfFuel(fuel_type) == IF fuel_type = NoText THEN 0 ELSE DP_fuel_points(fuel_type)
C26_BasePlusBonuses ==
    mode = "score_dp"
    => ret.score =
          DP_clamp(50 + DP_price_points(arg.listing.price)
                      + DP_year_points(arg.listing.year, arg.current_year)
                      + DP_mileage_points(arg.listing.mileage, arg.listing.year,
                                          arg.current_year)
                      + BonusOfFuel(arg.listing.fuel_type))

\* C27: two raw records that clean_listing_data turns into canonical
\* listings with the same price, year, mileage and fuel_type get the same
\* deal_score.
C27_ScoreOfCanonicalFields ==
    (/\ mode = "pair_done"
     /\ ret[1] # Rejected
     /\ ret[2] # Rejected
     /\ ret[1].price = ret[2].price
     /\ ret[1].year = ret[2].year
     /\ ret[1].mileage = ret[2].mileage
     /\ ret[1].fuel_type = ret[2].fuel_type)
    => ret[1].deal_score = ret[2].deal_score

\* C28: throughout a run of DataProcessor.process_listings total_processed
\* is the number of records of the batch and the four outcome counters add
\* up to the number of records handled so far; so in the statistics
\* returned, for the empty batch too, total_processed = len(batch) =
\* new_listings + updated_listings + duplicates_skipped + errors.
Outcomes(s) == s.new_listings + s.updated_listings + s.duplicates_skipped + s.errors
C28_StatsAccounting ==
    mode = "dp"
    => /\ stats.total_processed = Len(batch)
       /\ Outcomes(stats) = idx
       /\ idx = Len(batch) => stats.total_processed = Outcomes(stats)

\* A run is about to return statistics with a stored record, a skipped
\* duplicate or a failure among them.
C28_Witness ==
    /\ mode = "dp"
    /\ idx = Len(batch)
    /\ Len(batch) = 2
    /\ stats.new_listings = 1
    /\ stats.duplicates_skipped + stats.errors = 1

\* C29: in every state the engine's runs reach from an empty repository, a
\* persisted row with price_dropped set has price_drop_amount > 0 and a
\* persisted row that was updated (its previous_price is set, which only the
\* update branch does) has previous_price equal to its price; an update that
\* the run commits leaves the row so; and no step takes price_dropped back
\* to false on a persisted row.
DropFieldsConsistent(table) ==
    \A i \in DOMAIN table :
        /\ table[i].price_dropped => table[i].price_drop_amount > 0
        /\ table[i].previous_price # NoNum => table[i].previous_price = table[i].price
UpdatedRowsCarryPrice ==
    (mode = "eng_done" /\ ~sessFailed /\ AllFlushable(txn))
    => \A k \in DOMAIN batch :
          \A j \in RowsWithUrl(dbStart, batch[k].url) :
              \E i \in DOMAIN db :
                  /\ db[i].id = dbStart[j].id
                  /\ db[i].previous_price # NoNum
                  /\ db[i].previous_price = db[i].price
DropNeverCleared ==
    \A i \in DOMAIN db : \A j \in DOMAIN db' :
        (db[i].id = db'[j].id /\ db[i].price_dropped) => db'[j].price_dropped
C29_PriceDropInvariants ==
    [][DropFieldsConsistent(db') /\ UpdatedRowsCarryPrice' /\ DropNeverCleared]_vars

\* A run has committed a second update of a row, at a lower price.
C29_Witness ==
    /\ mode = "eng_done"
    /\ ~sessFailed
    /\ updated_count >= 1
    /\ \E i \in DOMAIN db :
          /\ db[i].price_dropped
          /\ db[i].price_drop_amount > 0
          /\ db[i].previous_price = db[i].price
          /\ \E j \in DOMAIN dbStart :
                /\ dbStart[j].id = db[i].id
                /\ ~dbStart[j].price_dropped
                /\ dbStart[j].price > db[i].price

\* C30: in every state the engine's runs reach, the duplicate_group_id of a
\* persisted row flagged is_duplicate is the id of a persisted row that is
\* not flagged is_duplicate.
C30_GroupsHaveOneHead ==
    \A i \in DOMAIN db :
        db[i].is_duplicate =>
            \E j \in DOMAIN db :
                /\ db[j].id = db[i].duplicate_group_id
                /\ ~db[j].is_duplicate

====
